---- MODULE Spec2Model ----
(***************************************************************************)
(* A model of the AsmX language server (server/src/server.ts).             *)
(*                                                                         *)
(* Texts are sequences of one-character strings; offsets are 0-based as in *)
(* JavaScript, so the character at offset i is text[i + 1].                *)
(* The regular expressions of the source are modelled by what a            *)
(* backtracking matcher does with them: greedy quantifiers try the longest *)
(* repetition first, exec() scans for the leftmost start at or after       *)
(* lastIndex, test() on a non-global pattern scans from offset 0.          *)
(*                                                                         *)
(* An event handler and the microtasks it leaves behind are one step: an   *)
(* async call runs up to its await, and resumes when its promise is        *)
(* settled, before the next message is handled.  A diagnostic's            *)
(* relatedInformation (lines 178-199) is not part of the model.            *)
(***************************************************************************)
EXTENDS Integers, Sequences, FiniteSets, TLC

\* ------------------------------------------------------------------------
\* Bounds of the model
\* ------------------------------------------------------------------------

\* Longest document text, in directive lines, of the scan specification.
MaxLines == 2

\* Most workspace/configuration requests the server issues in one behaviour.
MaxRequests == 2

\* Most async calls suspended at their await at one time.
MaxAwaiting == 4

\* Longest completions list (the list is never emptied by the server).
MaxCompletions == 2

\* ------------------------------------------------------------------------
\* Characters
\* ------------------------------------------------------------------------

Lower ==
    {"a","b","c","d","e","f","g","h","i","j","k","l","m",
     "n","o","p","q","r","s","t","u","v","w","x","y","z"}

Upper ==
    {"A","B","C","D","E","F","G","H","I","J","K","L","M",
     "N","O","P","Q","R","S","T","U","V","W","X","Y","Z"}

Digit == {"0","1","2","3","4","5","6","7","8","9"}

\* \w of a JavaScript regular expression.
WordChar == Lower \cup Upper \cup Digit \cup {"_"}

\* \s of a JavaScript regular expression (the members a document holds here).
Space == {" ", "\t", "\n"}

\* [A-Z0-9_]
UpperClass == Upper \cup Digit \cup {"_"}

\* [a-z-ZA0-9_]: the range a-z, a literal '-', 'Z', 'A', the range 0-9, '_'.
VariableClass == Lower \cup {"-", "Z", "A"} \cup Digit \cup {"_"}

\* The character at 0-based offset i of text.
CharAt(text, i) == text[i + 1]

\* text.substring(from, to)
Slice(text, from, to) == SubSeq(text, from + 1, to)

\* ------------------------------------------------------------------------
\* Pieces of the patterns
\* ------------------------------------------------------------------------

SetKeywords ==
    { <<"@","s","e","t">>, <<"@","S","e","t">>, <<"@","S","E","T">> }

DefineKeywords ==
    { <<"@","d","e","f","i","n","e">>,
      <<"@","D","e","f","i","n","e">>,
      <<"@","D","E","F","I","N","E">> }

\* (?<=k1|k2|k3) at offset i: one of the keywords ends right before i.
Lookbehind(text, i, keywords) ==
    \E k \in keywords : /\ i >= Len(k)
                        /\ Slice(text, i - Len(k), i) = k

\* The length of the longest run of characters of class starting at offset i.
RECURSIVE Run(_, _, _)
Run(text, i, class) ==
    IF i < Len(text) /\ CharAt(text, i) \in class
    THEN 1 + Run(text, i + 1, class)
    ELSE 0

\* \b at offset i: exactly one of the two neighbours is a word character.
WordBoundary(text, i) ==
    LET before == i > 0 /\ CharAt(text, i - 1) \in WordChar
        after  == i < Len(text) /\ CharAt(text, i) \in WordChar
    IN  before # after

Max(S) == CHOOSE x \in S : \A y \in S : y <= x

Min(S) == CHOOSE x \in S : \A y \in S : x <= y

NoMatch == [index |-> -1]

\* String.prototype.trim
RECURSIVE TrimLeft(_)
TrimLeft(s) ==
    IF s # <<>> /\ Head(s) \in Space THEN TrimLeft(Tail(s)) ELSE s

RECURSIVE TrimRight(_)
TrimRight(s) ==
    IF s # <<>> /\ s[Len(s)] \in Space
    THEN TrimRight(SubSeq(s, 1, Len(s) - 1))
    ELSE s

Trim(s) == TrimRight(TrimLeft(s))

\* TextDocument.positionAt: the line is the number of line breaks before the
\* offset, the character the distance from the start of that line.
positionAt(text, offset) ==
    LET o      == IF offset > Len(text) THEN Len(text) ELSE offset
        breaks == { j \in 1..o : text[j] = "\n" }
    IN  [ line      |-> Cardinality(breaks),
          character |-> IF breaks = {} THEN o ELSE o - Max(breaks) ]

\* ------------------------------------------------------------------------
\* RegExp matching
\* ------------------------------------------------------------------------

\* The patterns below are  \s+(C*)  and, with boundaries,  \s+(\bC*\b)  for
\* a character class C.  Matches(text, i, k, j, ..): at offset i the pattern
\* matches with k characters for \s+ and j characters for C*.
Matches(text, i, k, j, class, boundaries) ==
    /\ k \in 1..Run(text, i, Space)
    /\ j \in 0..Run(text, i + k, class)
    /\ boundaries => /\ WordBoundary(text, i + k)
                     /\ WordBoundary(text, i + k + j)

\* The counts k the pattern can match with at offset i.
SpaceCounts(text, i, class, boundaries) ==
    { k \in 1..(Len(text) - i) :
        \E j \in 0..(Len(text) - i - k) : Matches(text, i, k, j, class, boundaries) }

\* The array exec returns: m.index, m[0], m[1], and the pattern's lastIndex.
MatchArray(text, i, k, j) ==
    [ index     |-> i,
      whole     |-> Slice(text, i, i + k + j),
      group     |-> Slice(text, i + k, i + k + j),
      lastIndex |-> i + k + j ]

\* \s+ and C* are greedy: of the counts that let the whole pattern match,
\* the matcher keeps the largest k and, for that k, the largest j.
GreedyMatch(text, i, k, class, boundaries) ==
    MatchArray(text, i, k,
               Max({ j \in 0..(Len(text) - i - k) :
                       Matches(text, i, k, j, class, boundaries) }))

MatchAt(text, i, class, boundaries) ==
    GreedyMatch(text, i, Max(SpaceCounts(text, i, class, boundaries)),
                class, boundaries)

\* Starts without the lookbehind: the pattern alone, after any characters.
StartsAnywhere(text, lastIndex, keywords, class, boundaries) ==
    { i \in lastIndex..Len(text) : SpaceCounts(text, i, class, boundaries) # {} }

\* The offsets at or after lastIndex where (?<=keywords) and the pattern match.
Starts(text, lastIndex, keywords, class, boundaries) ==
    { i \in lastIndex..Len(text) :
        /\ Lookbehind(text, i, keywords)
        /\ SpaceCounts(text, i, class, boundaries) # {} }

Leftmost(text, starts, class, boundaries) ==
    IF starts = {}
    THEN NoMatch
    ELSE MatchAt(text, Min(starts), class, boundaries)

\* RegExp.prototype.exec: the leftmost match starting at or after lastIndex.
Exec(text, lastIndex, keywords, class, boundaries) ==
    Leftmost(text, Starts(text, lastIndex, keywords, class, boundaries),
             class, boundaries)

\* /(?<=@set|@Set|@SET)\s+(\b[A-Z0-9_]*\b)/g .exec, from lastIndex
patternValidVariableName(text, lastIndex) ==
    Exec(text, lastIndex, SetKeywords, UpperClass, TRUE)

\* /(?<=@set|@Set|@SET)\s([^a-z][A-Z0-9_]*)/ .test: a keyword, one white
\* space character, one character that is not a lower-case letter.
patternValidVariableNameTest(text) ==
    \E i \in 0..Len(text) :
        /\ Lookbehind(text, i, SetKeywords)
        /\ i + 1 < Len(text)
        /\ CharAt(text, i) \in Space
        /\ CharAt(text, i + 1) \notin Lower

\* patterns.variable.exec / patterns.variable.test
variableExec(text, lastIndex) ==
    Exec(text, lastIndex, SetKeywords, VariableClass, FALSE)

variableTest(text) ==
    Starts(text, 0, SetKeywords, VariableClass, FALSE) # {}

\* patterns.constant.exec / patterns.constant.test
constantExec(text, lastIndex) ==
    Exec(text, lastIndex, DefineKeywords, UpperClass, FALSE)

constantTest(text) ==
    Starts(text, 0, DefineKeywords, UpperClass, FALSE) # {}

\* ------------------------------------------------------------------------
\* validateTextDocument: the body after the settings have arrived
\* ------------------------------------------------------------------------

IsAllUppercase ==
    <<" ","i","s"," ","a","l","l"," ","u","p","p","e","r","c","a","s","e",".">>

\* The Diagnostic built for the match m.
MakeDiagnostic(text, m) ==
    [ severity |-> "Warning",
      range    |-> [ start |-> positionAt(text, m.index + 1),
                     end   |-> positionAt(text, m.index + Len(m.whole)) ],
      message  |-> Trim(m.whole) \o IsAllUppercase,
      source   |-> "AsmX",
      code     |-> text ]

\* The while loop: test, then exec, then the cap, in this order.
RECURSIVE LintLoop(_, _, _, _)
RECURSIVE LintStep(_, _, _, _)
LintLoop(text, maxNumberOfProblems, lastIndex, diagnostics) ==
    IF ~patternValidVariableNameTest(text)
    THEN diagnostics
    ELSE LintStep(text, maxNumberOfProblems, diagnostics,
                  patternValidVariableName(text, lastIndex))

\* LintStep with the cap compared by <= : one diagnostic too many.
LintStepCapOffByOne(text, maxNumberOfProblems, diagnostics, m) ==
    IF m = NoMatch
    THEN diagnostics
    ELSE IF ~(Len(diagnostics) <= maxNumberOfProblems)
    THEN diagnostics
    ELSE LintLoop(text, maxNumberOfProblems, m.lastIndex,
                  Append(diagnostics, MakeDiagnostic(text, m)))

\* The rest of the condition and the loop's body, for the match m of exec.
LintStep(text, maxNumberOfProblems, diagnostics, m) ==
    IF m = NoMatch
    THEN diagnostics
    ELSE IF ~(Len(diagnostics) < maxNumberOfProblems)
    THEN diagnostics
    ELSE LintLoop(text, maxNumberOfProblems, m.lastIndex,
                  Append(diagnostics, MakeDiagnostic(text, m)))

\* The diagnostics validateTextDocument sends for text under the settings.
\* (problems counts the pushes, so the pop loop after the while loop finds
\* an empty list whenever it runs.)
Lint(text, maxNumberOfProblems) ==
    LintLoop(text, maxNumberOfProblems, 0, <<>>)

\* ------------------------------------------------------------------------
\* referenceCompletion: the body after the settings have arrived
\* ------------------------------------------------------------------------

\* CompletionItem.create(m[1].trim()) with its kind set.
Reference(m, kind) == [ label |-> Trim(m.group), kind |-> kind ]

\* The references the first loop creates, in order; each one is pushed to
\* completions and becomes the completion handler's answer.
RECURSIVE VariableLoop(_, _, _)
RECURSIVE VariableStep(_, _, _)
VariableLoop(text, lastIndex, refs) ==
    IF ~variableTest(text)
    THEN refs
    ELSE VariableStep(text, refs, variableExec(text, lastIndex))

VariableStep(text, refs, m) ==
    IF m = NoMatch
    THEN refs
    ELSE VariableLoop(text, m.lastIndex, Append(refs, Reference(m, "Variable")))

\* The references the second loop creates, in order; each one becomes the
\* completion handler's answer and none is pushed to completions.
RECURSIVE ConstantLoop(_, _, _)
RECURSIVE ConstantStep(_, _, _)
ConstantLoop(text, lastIndex, refs) ==
    IF ~constantTest(text)
    THEN refs
    ELSE ConstantStep(text, refs, constantExec(text, lastIndex))

ConstantStep(text, refs, m) ==
    IF m = NoMatch
    THEN refs
    ELSE ConstantLoop(text, m.lastIndex, Append(refs, Reference(m, "Constant")))

VariableReferences(text) == VariableLoop(text, 0, <<>>)

ConstantReferences(text) == ConstantLoop(text, 0, <<>>)

\* ------------------------------------------------------------------------
\* The texts a client sends
\* ------------------------------------------------------------------------

defaultMaxNumberOfProblems == 1000

defaultSettings == [ maxNumberOfProblems |-> defaultMaxNumberOfProblems ]

\* The settings a client's configuration gives in the server specification.
SettingsValues == { [ maxNumberOfProblems |-> 1 ], defaultSettings }

\* The document texts of the server specification.
ServerTexts ==
    { <<"@","S","E","T"," ","A","\n","@","S","E","T"," ","B">>,
      <<"@","d","e","f","i","n","e"," ","M">>,
      <<"a","b">> }

\* The lines of the texts of the scan specification.
ScanLines ==
    { <<"@","s","e","t"," ","a","b">>,
      <<"@","S","E","T"," ","L","O">>,
      <<"@","S","e","t"," "," ","U","P">>,
      <<"@","s","e","t"," ","x","Y">>,
      <<"@","s","e","t">>,
      <<"@","s","e","t"," ">>,
      <<"@","s","e","t"," ","$","x">>,
      <<"@","S","E","T"," ","A","1"," ","5">>,
      <<"@","d","e","f","i","n","e"," ","M","X">> }

\* The texts of exactly n lines, joined by line breaks.
RECURSIVE TextsOfLines(_)
TextsOfLines(n) ==
    IF n = 0
    THEN { <<>> }
    ELSE IF n = 1
    THEN ScanLines
    ELSE { t \o <<"\n">> \o l : t \in TextsOfLines(n - 1), l \in ScanLines }

\* The example text of the specification's section 8:
\* "@set myVar 10\n@SET LOUD 5\n@define MAX_LEN 99"
ExampleText ==
    <<"@","s","e","t"," ","m","y","V","a","r"," ","1","0","\n",
      "@","S","E","T"," ","L","O","U","D"," ","5","\n",
      "@","d","e","f","i","n","e"," ","M","A","X","_","L","E","N"," ","9","9">>

ScanTexts == UNION { TextsOfLines(n) : n \in 0..MaxLines } \cup { ExampleText }

\* The values of maxNumberOfProblems of the scan specification.
ScanSettings ==
    { [ maxNumberOfProblems |-> n ] : n \in 0..MaxLines } \cup { defaultSettings }

\* The scans below, computed once for every text and setting of the model.
AllTexts == ServerTexts \cup ScanTexts

AllSettings == SettingsValues \cup ScanSettings

Diagnostics ==
    [ t \in AllTexts |->
        [ n \in { s.maxNumberOfProblems : s \in AllSettings } |-> Lint(t, n) ] ]

Variables == [ t \in AllTexts |-> VariableReferences(t) ]

Constants == [ t \in AllTexts |-> ConstantReferences(t) ]

\* ------------------------------------------------------------------------
\* The server's state
\* ------------------------------------------------------------------------

VARIABLES
    hasConfigurationCapability,  \* set by onInitialize
    globalSettings,              \* the settings used without the capability
    documents,                   \* TextDocuments: <<[uri, text]>>, in the order opened
    documentSettings,            \* Map uri -> promise (0: no entry)
    promises,                    \* the workspace/configuration requests issued
    awaiting,                    \* the async calls suspended at their await
    sent,                        \* per uri, the last sendDiagnostics
    completions,                 \* the module-level completions list
    onCompletion,                \* the completion handler registered last
    response                     \* the reply to the message handled last

vars ==
    << hasConfigurationCapability, globalSettings, documents, documentSettings,
       promises, awaiting, sent, completions, onCompletion, response >>

Uris == {"a", "b"}

\* The handler of line 269: the two fixed candidates.
BuiltinHandler == [ builtin |-> TRUE, reference |-> [ label |-> <<>>, kind |-> "" ] ]

\* A handler registered inside a loop of referenceCompletion.
ReferenceHandler(reference) == [ builtin |-> FALSE, reference |-> reference ]

Builtins ==
    << [ label |-> <<"$","r","e","t">>, kind |-> "Constant", data |-> 1 ],
       [ label |-> <<"$","u","r","t">>, kind |-> "Constant", data |-> 2 ] >>

\* A notification has no reply.
NoResponse == << >>

\* What the registered handler returns.
CompletionAnswer(handler) ==
    IF handler.builtin
    THEN Builtins
    ELSE << handler.reference >>

\* item.data === value; an item without the property has data undefined.
DataIs(item, value) == "data" \in DOMAIN item /\ item.data = value

RegisterDetails == "Register details"

RetDocumentation ==
    "This register is the value that the instruction changes during or at the beginning of its execution."

UrtDocumentation ==
    "This register is the value that the function returns at the time or beginning of its execution."

\* item with its properties detail and documentation assigned.
Documented(item, detail, documentation) ==
    [ detail |-> detail, documentation |-> documentation ] @@ item

\* onCompletionResolve with the default case assigning like case 1.
onCompletionResolveDefaultAssigns(item) ==
    IF DataIs(item, 2)
    THEN Documented(item, RegisterDetails, UrtDocumentation)
    ELSE Documented(item, RegisterDetails, RetDocumentation)

\* connection.onCompletionResolve: the switch on item.data.
onCompletionResolve(item) ==
    IF DataIs(item, 1)
    THEN Documented(item, RegisterDetails, RetDocumentation)
    ELSE IF DataIs(item, 2)
    THEN Documented(item, RegisterDetails, UrtDocumentation)
    ELSE item

\* The items a client asks to resolve: the ones a completion answered (a
\* builtin, a reference without data), and items of its own making.
ResolveItems ==
    { Builtins[1], Builtins[2],
      [ label |-> <<"B">>, kind |-> "Variable" ],
      [ label |-> <<"M">>, kind |-> "Constant" ],
      [ label |-> <<"M">>, kind |-> "Constant", data |-> 3 ],
      [ label |-> <<"M">>, kind |-> "Constant", data |-> 0, detail |-> "mine" ],
      [ label |-> <<"$","r","e","t">>, kind |-> "Constant", data |-> 1,
        detail |-> "mine", documentation |-> "mine" ] }

\* sent[uri] before anything was sent for uri.
NotSent == [ any |-> FALSE, diagnostics |-> <<>> ]

IsOpen(docs, uri) == \E i \in 1..Len(docs) : docs[i].uri = uri

\* documents.get(uri).getText()
TextOf(docs, uri) ==
    LET i == CHOOSE i \in 1..Len(docs) : docs[i].uri = uri IN docs[i].text

\* The part of the state the handlers below change, as one record.
Server ==
    [ documentSettings |-> documentSettings,
      promises         |-> promises,
      awaiting         |-> awaiting,
      sent             |-> sent,
      completions      |-> completions,
      onCompletion     |-> onCompletion ]

\* getDocumentSettings without the look-up in documentSettings: a request
\* per call.
getDocumentSettingsUncached(st, resource, capability, global) ==
    IF ~capability
    THEN [ st |-> st, promise |-> 0, settings |-> global ]
    ELSE [ st |-> [ st EXCEPT
                      !.promises = Append(@, [ state |-> "pending",
                                               settings |-> defaultSettings ]),
                      !.documentSettings[resource] = Len(st.promises) + 1 ],
           promise  |-> Len(st.promises) + 1,
           settings |-> defaultSettings ]

\* getDocumentSettings resolving to defaultSettings, not to globalSettings,
\* without the capability.
getDocumentSettingsDefault(st, resource, capability, global) ==
    IF ~capability
    THEN [ st |-> st, promise |-> 0, settings |-> defaultSettings ]
    ELSE IF st.documentSettings[resource] # 0
    THEN [ st |-> st, promise |-> st.documentSettings[resource],
           settings |-> defaultSettings ]
    ELSE [ st |-> [ st EXCEPT
                      !.promises = Append(@, [ state |-> "pending",
                                               settings |-> defaultSettings ]),
                      !.documentSettings[resource] = Len(st.promises) + 1 ],
           promise  |-> Len(st.promises) + 1,
           settings |-> defaultSettings ]

\* getDocumentSettings: the server after the call and the promise returned
\* (promise 0: Promise.resolve(globalSettings), settled with settings).
getDocumentSettings(st, resource, capability, global) ==
    IF ~capability
    THEN [ st |-> st, promise |-> 0, settings |-> global ]
    ELSE IF st.documentSettings[resource] # 0
    THEN [ st |-> st, promise |-> st.documentSettings[resource],
           settings |-> defaultSettings ]
    ELSE LET p == Len(st.promises) + 1
         IN  [ st |-> [ st EXCEPT
                          !.promises = Append(@, [ state |-> "pending",
                                                   settings |-> defaultSettings ]),
                          !.documentSettings[resource] = p ],
               promise  |-> p,
               settings |-> defaultSettings ]

\* An async function called for the open document uri: it runs up to its
\* await of getDocumentSettings and is suspended there.
Call(st, fn, uri, capability, global) ==
    LET r == getDocumentSettings(st, uri, capability, global)
    IN  [ r.st EXCEPT !.awaiting =
            Append(@, [ fn       |-> fn,
                        uri      |-> uri,
                        detached |-> FALSE,
                        text     |-> <<>>,
                        promise  |-> r.promise,
                        settings |-> r.settings ]) ]

\* validateTextDocument after its await: the text is read now.
validateTextDocument(st, uri, text, settings) ==
    [ st EXCEPT !.sent[uri] =
        [ any         |-> TRUE,
          diagnostics |-> Diagnostics[text][settings.maxNumberOfProblems] ] ]

\* referenceCompletion after its await: the first loop pushes each reference
\* to completions; both loops register a handler per reference, and the one
\* registered last stays.
Registered(st, variables, created) ==
    [ st EXCEPT
        !.completions  = @ \o variables,
        !.onCompletion = IF created = <<>>
                         THEN @
                         ELSE ReferenceHandler(created[Len(created)]) ]

referenceCompletion(st, text) ==
    Registered(st, Variables[text], Variables[text] \o Constants[text])

Settled(st, task) ==
    task.promise = 0 \/ st.promises[task.promise].state # "pending"

\* The suspended call resumes: with the settings when its promise was
\* fulfilled; a rejected promise makes the await throw, which ends the call.
Resume(st, task, docs) ==
    LET rejected == task.promise # 0
                    /\ st.promises[task.promise].state = "rejected"
        settings == IF task.promise = 0
                    THEN task.settings
                    ELSE st.promises[task.promise].settings
        text     == IF task.detached THEN task.text ELSE TextOf(docs, task.uri)
    IN  IF rejected
        THEN st
        ELSE IF task.fn = "validateTextDocument"
        THEN validateTextDocument(st, task.uri, text, settings)
        ELSE referenceCompletion(st, text)

RemoveAt(seq, i) == SubSeq(seq, 1, i - 1) \o SubSeq(seq, i + 1, Len(seq))

\* The microtasks at the end of a turn of the event loop: every suspended
\* call whose promise is settled resumes, in the order of the awaits.
RECURSIVE Drain(_, _)
Drain(st, docs) ==
    LET ready == { i \in 1..Len(st.awaiting) : Settled(st, st.awaiting[i]) }
    IN  IF ready = {}
        THEN st
        ELSE LET i == Min(ready)
             IN  Drain(Resume([ st EXCEPT !.awaiting = RemoveAt(@, i) ],
                              st.awaiting[i], docs),
                       docs)

\* documents.onDidChangeContent
onDidChangeContent(st, uri, capability, global) ==
    Call(Call(st, "validateTextDocument", uri, capability, global),
         "referenceCompletion", uri, capability, global)

\* documents.all().forEach(validateTextDocument), from the i-th document on
RECURSIVE ValidateAll(_, _, _, _, _)
ValidateAll(st, docs, i, capability, global) ==
    IF i > Len(docs)
    THEN st
    ELSE ValidateAll(Call(st, "validateTextDocument", docs[i].uri, capability, global),
                     docs, i + 1, capability, global)

\* The variables of Server take the record's values.
Becomes(st) ==
    /\ documentSettings' = st.documentSettings
    /\ promises' = st.promises
    /\ awaiting' = st.awaiting
    /\ sent' = st.sent
    /\ completions' = st.completions
    /\ onCompletion' = st.onCompletion

Init ==
    /\ hasConfigurationCapability \in BOOLEAN
    /\ globalSettings = defaultSettings
    /\ documents = <<>>
    /\ documentSettings = [ u \in Uris |-> 0 ]
    /\ promises = <<>>
    /\ awaiting = <<>>
    /\ sent = [ u \in Uris |-> NotSent ]
    /\ completions = <<>>
    /\ onCompletion = BuiltinHandler
    /\ response = NoResponse

\* textDocument/didOpen: the document is created and its content "changed".
DidOpen(uri, text) ==
    /\ ~IsOpen(documents, uri)
    /\ documents' = Append(documents, [ uri |-> uri, text |-> text ])
    /\ response' = NoResponse
    /\ UNCHANGED << hasConfigurationCapability, globalSettings >>
    /\ Becomes(Drain(onDidChangeContent(Server, uri, hasConfigurationCapability,
                                        globalSettings),
                     documents'))

\* textDocument/didChange: the document object is updated in place.
DidChange(uri, text) ==
    /\ IsOpen(documents, uri)
    /\ documents' = [ i \in 1..Len(documents) |->
                        IF documents[i].uri = uri
                        THEN [ documents[i] EXCEPT !.text = text ]
                        ELSE documents[i] ]
    /\ response' = NoResponse
    /\ UNCHANGED << hasConfigurationCapability, globalSettings >>
    /\ Becomes(Drain(onDidChangeContent(Server, uri, hasConfigurationCapability,
                                        globalSettings),
                     documents'))

\* DidClose without documentSettings.delete(uri).
DidCloseKeepsSettings(uri) ==
    /\ IsOpen(documents, uri)
    /\ documents' = SelectSeq(documents, LAMBDA d : d.uri # uri)
    /\ awaiting' = [ i \in 1..Len(awaiting) |->
                       IF awaiting[i].uri = uri /\ ~awaiting[i].detached
                       THEN [ awaiting[i] EXCEPT
                                !.detached = TRUE,
                                !.text = TextOf(documents, uri) ]
                       ELSE awaiting[i] ]
    /\ response' = NoResponse
    /\ UNCHANGED << hasConfigurationCapability, globalSettings, promises, sent,
                    completions, onCompletion, documentSettings >>

\* textDocument/didClose and documents.onDidClose.  A call still suspended
\* keeps the closed document object, whose text no longer changes.
DidClose(uri) ==
    /\ IsOpen(documents, uri)
    /\ documents' = SelectSeq(documents, LAMBDA d : d.uri # uri)
    /\ documentSettings' = [ documentSettings EXCEPT ![uri] = 0 ]
    /\ awaiting' = [ i \in 1..Len(awaiting) |->
                       IF awaiting[i].uri = uri /\ ~awaiting[i].detached
                       THEN [ awaiting[i] EXCEPT
                                !.detached = TRUE,
                                !.text = TextOf(documents, uri) ]
                       ELSE awaiting[i] ]
    /\ response' = NoResponse
    /\ UNCHANGED << hasConfigurationCapability, globalSettings, promises, sent,
                    completions, onCompletion >>

\* connection.onDidChangeConfiguration; settings is
\* change.settings.AsmXLanguageServer || defaultSettings.
DidChangeConfiguration(settings) ==
    LET global  == IF hasConfigurationCapability THEN globalSettings ELSE settings
        cleared == IF hasConfigurationCapability
                   THEN [ Server EXCEPT !.documentSettings = [ u \in Uris |-> 0 ] ]
                   ELSE Server
    IN  /\ UNCHANGED << hasConfigurationCapability, documents >>
        /\ response' = NoResponse
        /\ globalSettings' = global
        /\ Becomes(Drain(ValidateAll(cleared, documents, 1,
                                     hasConfigurationCapability, global),
                         documents))

\* The client answers the workspace/configuration request p.
ConfigurationResponse(p, settings) ==
    /\ p \in 1..Len(promises)
    /\ promises[p].state = "pending"
    /\ response' = NoResponse
    /\ UNCHANGED << hasConfigurationCapability, globalSettings, documents >>
    /\ Becomes(Drain([ Server EXCEPT !.promises[p] =
                         [ state |-> "fulfilled", settings |-> settings ] ],
                     documents))

\* The workspace/configuration request p fails.
ConfigurationError(p) ==
    /\ p \in 1..Len(promises)
    /\ promises[p].state = "pending"
    /\ response' = NoResponse
    /\ UNCHANGED << hasConfigurationCapability, globalSettings, documents >>
    /\ Becomes(Drain([ Server EXCEPT !.promises[p].state = "rejected" ], documents))

\* textDocument/completion for uri: the handler registered last answers.
Completion(uri) ==
    /\ response' = << [ uri |-> uri, items |-> CompletionAnswer(onCompletion) ] >>
    /\ UNCHANGED << hasConfigurationCapability, globalSettings, documents,
                    documentSettings, promises, awaiting, sent, completions,
                    onCompletion >>

\* completionItem/resolve for item.
CompletionResolve(item) ==
    /\ response' = << [ item |-> item, resolved |-> onCompletionResolve(item) ] >>
    /\ UNCHANGED << hasConfigurationCapability, globalSettings, documents,
                    documentSettings, promises, awaiting, sent, completions,
                    onCompletion >>

\* ------------------------------------------------------------------------
\* Specifications
\* ------------------------------------------------------------------------

\* The bounds of the server specification.
Bounded ==
    /\ Len(promises') <= MaxRequests
    /\ Len(awaiting') <= MaxAwaiting
    /\ Len(completions') <= MaxCompletions

Next ==
    \/ \E u \in Uris, t \in ServerTexts : DidOpen(u, t) /\ Bounded
    \/ \E u \in Uris, t \in ServerTexts : DidChange(u, t) /\ Bounded
    \/ \E u \in Uris : DidClose(u)
    \/ \E s \in SettingsValues : DidChangeConfiguration(s) /\ Bounded
    \/ \E p \in 1..MaxRequests, s \in SettingsValues :
          ConfigurationResponse(p, s) /\ Bounded
    \/ \E p \in 1..MaxRequests : ConfigurationError(p)
    \/ \E u \in Uris : Completion(u)

Spec == Init /\ [][Next]_vars

\* The server while its documents stay open: every event but didClose.
NextEdit ==
    \/ \E u \in Uris, t \in ServerTexts : DidOpen(u, t) /\ Bounded
    \/ \E u \in Uris, t \in ServerTexts : DidChange(u, t) /\ Bounded
    \/ \E s \in SettingsValues : DidChangeConfiguration(s) /\ Bounded
    \/ \E p \in 1..MaxRequests, s \in SettingsValues :
          ConfigurationResponse(p, s) /\ Bounded
    \/ \E p \in 1..MaxRequests : ConfigurationError(p)
    \/ \E u \in Uris : Completion(u)

SpecEdit == Init /\ [][NextEdit]_vars

\* One scan of one text: the client does not support workspace/configuration
\* and has sent its settings; a document is opened.
InitScan ==
    /\ Init
    /\ ~hasConfigurationCapability

ConfigureScan ==
    /\ documents = <<>>
    /\ \E s \in ScanSettings : DidChangeConfiguration(s)

OpenScan ==
    \E t \in ScanTexts : DidOpen("a", t)

NextScan ==
    \/ ConfigureScan
    \/ OpenScan

SpecScan == InitScan /\ [][NextScan]_vars

\* Completion and its resolution: the client does not support
\* workspace/configuration; documents are opened and changed, completion
\* is asked for and items are resolved.  (onCompletionResolve reads and
\* writes nothing but its item, so the other handlers do not matter to it.)
NextResolve ==
    \/ \E u \in Uris, t \in ServerTexts : DidOpen(u, t) /\ Bounded
    \/ \E u \in Uris, t \in ServerTexts : DidChange(u, t) /\ Bounded
    \/ \E u \in Uris : Completion(u)
    \/ \E item \in ResolveItems : CompletionResolve(item)

SpecResolve == InitScan /\ [][NextResolve]_vars

\* ------------------------------------------------------------------------
\* The vocabulary of the properties
\* ------------------------------------------------------------------------

\* The length of the whitespace-delimited word starting at offset i.
RECURSIVE WordLength(_, _)
WordLength(text, i) ==
    IF i < Len(text) /\ CharAt(text, i) \notin Space
    THEN 1 + WordLength(text, i + 1)
    ELSE 0

\* The offsets right after a directive keyword that is followed by whitespace.
Occurrences(text, keywords) ==
    { i \in 0..Len(text) : /\ Lookbehind(text, i, keywords)
                           /\ i < Len(text)
                           /\ CharAt(text, i) \in Space }

\* The offset of the name of the occurrence at i: after the whitespace.
NameStart(text, i) == i + Run(text, i, Space)

\* The name of the occurrence at i: the first whitespace-delimited word
\* after the keyword (empty when only whitespace follows).
NameOf(text, i) ==
    Slice(text, NameStart(text, i),
          NameStart(text, i) + WordLength(text, NameStart(text, i)))

\* The names of the occurrences at or after offset from, in text order.
RECURSIVE NamesFrom(_, _, _)
NamesFrom(text, keywords, from) ==
    IF { i \in Occurrences(text, keywords) : i >= from } = {}
    THEN <<>>
    ELSE << NameOf(text, Min({ i \in Occurrences(text, keywords) : i >= from })) >>
         \o NamesFrom(text, keywords,
                      Min({ i \in Occurrences(text, keywords) : i >= from }) + 1)

AllUppercase(name) ==
    name # <<>> /\ \A i \in 1..Len(name) : name[i] \in UpperClass

\* The all-uppercase names of the variable directives of text, in text order.
UppercaseNames(text) ==
    SelectSeq(NamesFrom(text, SetKeywords, 0), AllUppercase)

\* The name a diagnostic's message flags.
FlaggedName(d) == SubSeq(d.message, 1, Len(d.message) - Len(IsAllUppercase))

Before(p, q) ==
    p.line < q.line \/ (p.line = q.line /\ p.character < q.character)

\* In the scan specification: document "a" was opened, and both scans of
\* its text have run.
Scanned == documents # <<>> /\ sent["a"].any

ScannedText == documents[1].text

Published == sent["a"].diagnostics

\* ------------------------------------------------------------------------
\* C1..C5: one scan of one text (SpecScan)
\* ------------------------------------------------------------------------

\* C1: with N all-uppercase variable names in the text and
\* maxNumberOfProblems >= N, validateTextDocument publishes exactly N
\* diagnostics, one Warning "<NAME> is all uppercase." per such name, in text
\* order, and none for any other occurrence.
C1_OneWarningPerUppercaseName ==
    (Scanned /\ globalSettings.maxNumberOfProblems >= Len(UppercaseNames(ScannedText)))
    => /\ Len(Published) = Len(UppercaseNames(ScannedText))
       /\ \A i \in 1..Len(Published) :
            /\ i <= Len(UppercaseNames(ScannedText))
            /\ Published[i].severity = "Warning"
            /\ Published[i].message = UppercaseNames(ScannedText)[i] \o IsAllUppercase

C3_RangeCoversName ==
    Scanned =>
      \A n \in 1..Len(Published) :
        \E i \in Occurrences(ScannedText, SetKeywords) :
          /\ Published[n].range.start = positionAt(ScannedText, NameStart(ScannedText, i))
          /\ Published[n].range["end"] =
               positionAt(ScannedText, NameStart(ScannedText, i)
                                         + Len(FlaggedName(Published[n])))
          /\ Slice(ScannedText, NameStart(ScannedText, i),
                   NameStart(ScannedText, i) + Len(FlaggedName(Published[n])))
               = FlaggedName(Published[n])

\* C4: an occurrence whose captured name is empty is skipped: no diagnostic
\* flags an empty name, no item with an empty label is appended to
\* completions, and no completion candidate has an empty label.
C4_EmptyNameSkipped ==
    Scanned =>
      /\ \A n \in 1..Len(Published) : FlaggedName(Published[n]) # <<>>
      /\ \A n \in 1..Len(completions) : completions[n].label # <<>>
      /\ \A n \in 1..Len(CompletionAnswer(onCompletion)) :
           CompletionAnswer(onCompletion)[n].label # <<>>

\* C5: for the variable directive, referenceCompletion captures the whole
\* first whitespace-delimited word after the keyword, whatever its
\* characters: the labels it pushes are the names of the occurrences.
C5_WholeWordCaptured ==
    Scanned =>
      /\ Len(completions) = Len(NamesFrom(ScannedText, SetKeywords, 0))
      /\ \A n \in 1..Len(completions) :
           completions[n].label = NamesFrom(ScannedText, SetKeywords, 0)[n]

\* ------------------------------------------------------------------------
\* C6, C8: the completions list after one scan (SpecScan)
\* ------------------------------------------------------------------------

\* The completions list has an item of this label and kind.
Recorded(label, kind) ==
    \E n \in 1..Len(completions) :
        completions[n].label = label /\ completions[n].kind = kind

\* C6: after a scan, the symbol table holds an entry for every non-empty
\* captured name of both directive kinds: kind Variable for a @set name,
\* kind Constant for a @define name.
C6_BothKindsRecorded ==
    Scanned =>
      /\ \A n \in 1..Len(VariableReferences(ScannedText)) :
           VariableReferences(ScannedText)[n].label # <<>>
           => Recorded(VariableReferences(ScannedText)[n].label, "Variable")
      /\ \A n \in 1..Len(ConstantReferences(ScannedText)) :
           ConstantReferences(ScannedText)[n].label # <<>>
           => Recorded(ConstantReferences(ScannedText)[n].label, "Constant")

\* C8: the symbol table holds at most one entry per name: no two entries
\* have the same (non-empty) name.
C8_OneEntryPerName ==
    \A i \in 1..Len(completions) : \A j \in 1..Len(completions) :
        (i # j /\ completions[i].label # <<>>)
        => completions[i].label # completions[j].label

\* ------------------------------------------------------------------------
\* C7, C9, C10: the server (Spec)
\* ------------------------------------------------------------------------

\* Every request was answered with settings and every scan has run.
AllSettled ==
    /\ awaiting = <<>>
    /\ \A p \in 1..Len(promises) : promises[p].state = "fulfilled"

\* C7: once the latest scan has completed, the symbol table holds exactly
\* the entries one scan of the document's current text produces from an
\* empty table.  (Document "a" is the only one open and the only one ever
\* scanned.)
C7_TableIsLastScan ==
    ( /\ AllSettled
      /\ Len(documents) = 1
      /\ documents[1].uri = "a"
      /\ sent["a"].any
      /\ ~sent["b"].any )
    => completions = VariableReferences(documents[1].text)

IsBuiltin(item) == \E n \in 1..Len(Builtins) : item = Builtins[n]

\* C9: symbol and completion state is per document: while an open document
\* has not been scanned, nothing is recorded for it, and a completion
\* request made for it is answered with nothing another document declared.
C9_PerDocument ==
    \A u \in Uris :
      (IsOpen(documents, u) /\ ~sent[u].any)
      => /\ completions = <<>>
         /\ \A r \in 1..Len(response) :
              ("uri" \in DOMAIN response[r] /\ response[r].uri = u)
              => \A n \in 1..Len(response[r].items) : IsBuiltin(response[r].items[n])

\* C10: in every reachable state the answer to a completion request holds
\* both builtin candidates, $ret with data 1 and $urt with data 2.
C10_BuiltinsAlwaysAnswered ==
    \A b \in 1..Len(Builtins) :
      \E n \in 1..Len(CompletionAnswer(onCompletion)) :
        CompletionAnswer(onCompletion)[n] = Builtins[b]

\* ------------------------------------------------------------------------
\* C11: completionItem/resolve (SpecResolve)
\* ------------------------------------------------------------------------

\* The properties of item other than detail and documentation.
Rest(item) == [ f \in DOMAIN item \ {"detail", "documentation"} |-> item[f] ]

\* C11: onCompletionResolve of an item whose data is neither 1 nor 2 (an
\* item without data among them) returns the item with every property
\* unchanged; only data 1 and data 2 get detail and documentation set, and
\* nothing else of the item changes.
C11_UnknownDataUnchanged ==
    \A r \in 1..Len(response) :
      "resolved" \in DOMAIN response[r]
      => /\ (~DataIs(response[r].item, 1) /\ ~DataIs(response[r].item, 2))
            => response[r].resolved = response[r].item
         /\ (DataIs(response[r].item, 1) \/ DataIs(response[r].item, 2))
            => /\ response[r].resolved.detail = RegisterDetails
               /\ response[r].resolved.documentation
                    = IF DataIs(response[r].item, 1)
                      THEN RetDocumentation
                      ELSE UrtDocumentation
               /\ Rest(response[r].resolved) = Rest(response[r].item)

\* A reference item, which has no data, was resolved and came back as sent.
C11_Witness ==
    \E r \in 1..Len(response) :
      /\ "resolved" \in DOMAIN response[r]
      /\ "data" \notin DOMAIN response[r].item
      /\ response[r].resolved = response[r].item

\* ------------------------------------------------------------------------
\* C12: the cache of settings requests (Spec)
\* ------------------------------------------------------------------------

\* The last n calls suspended in awaiting' are scans of uri awaiting p.
Suspended(n, uri, p) ==
    /\ Len(awaiting') = Len(awaiting) + n
    /\ \A i \in (Len(awaiting) + 1)..Len(awaiting') :
         /\ awaiting'[i].uri = uri
         /\ ~awaiting'[i].detached
         /\ awaiting'[i].promise = p

\* A content change of uri while documentSettings has its request: no
\* request is issued, the entry stays, and the scans of the new text use it
\* (they wait for it, or run with its settings, or end like it).
ReusesRequest(uri, text) ==
    /\ promises' = promises
    /\ documentSettings' = documentSettings
    /\ promises[documentSettings[uri]].state = "pending"
         => Suspended(2, uri, documentSettings[uri])
    /\ promises[documentSettings[uri]].state = "fulfilled"
         => /\ awaiting' = awaiting
            /\ sent'[uri].any
            /\ sent'[uri].diagnostics =
                 Diagnostics[text][promises[documentSettings[uri]]
                                     .settings.maxNumberOfProblems]
    /\ promises[documentSettings[uri]].state = "rejected"
         => awaiting' = awaiting

\* A content change of uri while documentSettings has no request for it:
\* one request is issued for both scans and is the entry of uri now.
IssuesOneRequest(uri) ==
    /\ Len(promises') = Len(promises) + 1
    /\ documentSettings' = [ documentSettings EXCEPT ![uri] = Len(promises') ]
    /\ Suspended(2, uri, Len(promises'))

\* A configuration change: every entry is dropped, and each open document
\* is scanned with a request of its own issued in this step.
Invalidates ==
    /\ Len(promises') = Len(promises) + Len(documents)
    /\ \A u \in Uris :
         IF IsOpen(documents, u)
         THEN /\ documentSettings'[u] \in (Len(promises) + 1)..Len(promises')
              /\ promises'[documentSettings'[u]].state = "pending"
              /\ \E i \in (Len(awaiting) + 1)..Len(awaiting') :
                   /\ awaiting'[i].uri = u
                   /\ awaiting'[i].fn = "validateTextDocument"
                   /\ awaiting'[i].promise = documentSettings'[u]
         ELSE documentSettings'[u] = 0
    /\ \A u \in Uris : \A v \in Uris :
         (u # v /\ IsOpen(documents, u) /\ IsOpen(documents, v))
         => documentSettings'[u] # documentSettings'[v]
    /\ \A i \in (Len(awaiting) + 1)..Len(awaiting') :
         awaiting'[i].promise = documentSettings'[awaiting'[i].uri]

\* The step handles a content change of uri: the document is opened, or
\* its text becomes another.
ContentChanged(uri) ==
    /\ IsOpen(documents', uri)
    /\ IsOpen(documents, uri) => TextOf(documents', uri) # TextOf(documents, uri)

C13_RejectionFallsBack ==
    \A u \in Uris :
      ( /\ IsOpen(documents, u)
        /\ documentSettings[u] # 0
        /\ promises[documentSettings[u]].state = "rejected" )
      => /\ sent[u].any
         /\ sent[u].diagnostics =
              Diagnostics[TextOf(documents, u)][defaultMaxNumberOfProblems]

\* ------------------------------------------------------------------------
\* C14: the last diagnostics published and the current text (Spec)
\* ------------------------------------------------------------------------

\* The diagnostics of text under one of the settings a scan can have.
ComputedFrom(diagnostics, text) ==
    \E s \in SettingsValues :
        diagnostics = Diagnostics[text][s.maxNumberOfProblems]

\* C14: once every settings request has been answered and every scan has
\* run, the diagnostics published last for an open document are the ones
\* computed from its current text.  (It holds while the documents stay
\* open, SpecEdit; a scan of a closed document breaks it, see C18.)
C14_LastScanWins ==
    \A u \in Uris :
      (AllSettled /\ IsOpen(documents, u) /\ sent[u].any)
      => ComputedFrom(sent[u].diagnostics, TextOf(documents, u))

\* ------------------------------------------------------------------------
\* C15: the settings without the configuration capability (Spec)
\* ------------------------------------------------------------------------

\* Without the capability every open document has been scanned (a scan does
\* not wait), and its diagnostics are those of its text under settings.
ScannedUnder(settings) ==
    \A u \in Uris :
      IsOpen(documents, u)
      => /\ sent[u].any
         /\ sent[u].diagnostics =
              Diagnostics[TextOf(documents, u)][settings.maxNumberOfProblems]

\* C15 as claimed: without the configuration capability every scan uses the
\* default maxNumberOfProblems = 1000, whatever notifications came, and
\* documentSettings stays empty.
C15_AlwaysDefault ==
    ~hasConfigurationCapability
    => /\ \A u \in Uris : documentSettings[u] = 0
       /\ ScannedUnder(defaultSettings)

\* C15 amended: without the configuration capability every scan uses
\* globalSettings, which is the default (1000) at the start and the settings
\* of the last configuration-change notification after one; no request is
\* issued and documentSettings stays empty.
C15_GlobalSettings ==
    ~hasConfigurationCapability
    => /\ \A u \in Uris : documentSettings[u] = 0
       /\ promises = <<>>
       /\ awaiting = <<>>
       /\ ScannedUnder(globalSettings)

\* Without the capability, after a notification with maxNumberOfProblems 1,
\* the text with two flagged names has one diagnostic.
C15_Witness ==
    /\ ~hasConfigurationCapability
    /\ globalSettings.maxNumberOfProblems = 1
    /\ IsOpen(documents, "a")
    /\ Len(Diagnostics[TextOf(documents, "a")][defaultMaxNumberOfProblems]) = 2
    /\ Len(sent["a"].diagnostics) = 1

\* ------------------------------------------------------------------------
\* C16: the loops of a scan end (SpecScan)
\* ------------------------------------------------------------------------

\* The match m of an exec from lastIndex starts at an occurrence of the
\* directive at or after lastIndex and leaves the pattern's lastIndex at
\* least one character further.
Consumes(text, keywords, lastIndex, m) ==
    m # NoMatch
    => /\ m.index >= lastIndex
       /\ m.index \in Occurrences(text, keywords)
       /\ m.lastIndex > m.index
       /\ m.lastIndex <= Len(text)

\* C16: every scan ends: each of the three loops runs at most once per
\* occurrence of its directive in the text (the lint loop pushes one
\* diagnostic per run, the match loops create one reference per run),
\* because every match of an exec pattern, from whatever lastIndex, is at
\* an occurrence not yet passed and consumes at least one character.
C16_LoopsEnd ==
    Scanned =>
      /\ Len(Published) <= Cardinality(Occurrences(ScannedText, SetKeywords))
      /\ Len(Variables[ScannedText])
           <= Cardinality(Occurrences(ScannedText, SetKeywords))
      /\ Len(Constants[ScannedText])
           <= Cardinality(Occurrences(ScannedText, DefineKeywords))
      /\ \A lastIndex \in 0..Len(ScannedText) :
           /\ Consumes(ScannedText, SetKeywords, lastIndex,
                       patternValidVariableName(ScannedText, lastIndex))
           /\ Consumes(ScannedText, SetKeywords, lastIndex,
                       variableExec(ScannedText, lastIndex))
           /\ Consumes(ScannedText, DefineKeywords, lastIndex,
                       constantExec(ScannedText, lastIndex))

\* The example text was scanned: each loop ran once per occurrence of its
\* directive, twice for @set and once for @define.
C16_Witness ==
    /\ Scanned
    /\ ScannedText = ExampleText
    /\ Cardinality(Occurrences(ScannedText, SetKeywords)) = 2
    /\ Len(Published) = 2
    /\ Len(completions) = 2
    /\ Len(Constants[ScannedText]) = 1

\* ------------------------------------------------------------------------
\* C17: the keys of documentSettings (Spec)
\* ------------------------------------------------------------------------

\* C17: in every reachable state the keys of documentSettings are uris of
\* open documents: no closed document has an entry.
C17_KeysAreOpen ==
    \A u \in Uris : documentSettings[u] # 0 => IsOpen(documents, u)

\* Document "a" had an entry and was closed while a scan of it was waiting
\* for the request; "b" is open and has its entry.
C17_Witness ==
    /\ ~IsOpen(documents, "a")
    /\ documentSettings["a"] = 0
    /\ \E i \in 1..Len(awaiting) : awaiting[i].uri = "a" /\ awaiting[i].detached
    /\ IsOpen(documents, "b")
    /\ documentSettings["b"] # 0

\* ------------------------------------------------------------------------
\* C18: diagnostics after didClose (Spec)
\* ------------------------------------------------------------------------

\* C18: nothing is published for a closed document: in a step that begins
\* and ends with uri closed (so uri is not reopened in it), what was sent
\* last for uri stays as it is; a scan that was awaiting its settings when
\* the document was closed does not send diagnostics when they arrive.
C18_NothingAfterClose ==
    [][ \A u \in Uris :
          (~IsOpen(documents, u) /\ ~IsOpen(documents', u))
          => sent'[u] = sent[u] ]_vars

\* ------------------------------------------------------------------------
\* C19: scans that were waiting at a configuration change (SpecEdit)
\* ------------------------------------------------------------------------

\* While the documents stay open, the entry of a uri in documentSettings is
\* replaced by configuration changes only: the entry is the request issued
\* in the last configuration change (or the first request of the uri, if
\* there was none).

\* C19: once every request has been answered and every scan has run, the
\* diagnostics published last for each open document were computed with
\* the settings of its request in documentSettings, the one issued after
\* the last configuration change; a scan that was waiting for an older
\* request does not publish last with the older maxNumberOfProblems.
C19_NewestSettingsWin ==
    \A u \in Uris :
      ( /\ hasConfigurationCapability
        /\ AllSettled
        /\ IsOpen(documents, u)
        /\ documentSettings[u] # 0 )
      => /\ sent[u].any
         /\ sent[u].diagnostics =
              Diagnostics[TextOf(documents, u)]
                         [promises[documentSettings[u]].settings.maxNumberOfProblems]

====
